---- MODULE Spec2Model ----
(***************************************************************************)
(* Model of the resource-lifetime core of the camera server:               *)
(*   - cs::Frame (src/src/Frame.h): reference-counted handle on a          *)
(*     Frame::Data buffer owned by a SourceImpl;                           *)
(*   - the VideoSource / VideoSink / SourceListener / SinkListener         *)
(*     wrappers (src/include/cameraserver_oo.inl) around backend handles.  *)
(*                                                                         *)
(* Threads are implicit: every multi-step operation keeps its position in  *)
(* the object it is working on (a Frame inside ~Frame between the atomic   *)
(* decrement and ReleaseFrame is "releasing"), and any number of such      *)
(* operations may be in progress at once, interleaved with every other     *)
(* operation.  A Frame or wrapper object is used by one thread at a time.  *)
(***************************************************************************)
EXTENDS Integers, FiniteSets, Sequences, TLC

\* ---------------------------------------------------------------- bounds
MaxFrames == 3      \* Frame objects that can exist at once
NumBuffers == 2     \* Frame::Data buffers of the source's pool
MaxCopies == 2      \* N of the copy-then-destroy scenario (SpecSeq)
MaxPublish == 2     \* publications in one run (the capture clock's range)
MaxWrappers == 3    \* handle wrapper objects that can exist at once
MaxHandles == 2     \* entries of the backend's handle table
MaxProperties == 2  \* VideoProperty objects that can exist at once
NumProps == 2       \* properties the backend keeps for one source

\* ------------------------------------------------------------- constants
NULL == 0           \* nullptr
Epoch == 0          \* std::chrono::system_clock::time_point{}
TheSource == 1      \* address of the one SourceImpl

PayloadSizes == {1, 2}   \* image payload sizes the backend publishes, in bytes

StatusOk == 0       \* CS_Status: no error
StatusErr == 1      \* CS_Status: any code the backend reports a failure with

FrameIds == 1..MaxFrames
Buffers == 1..NumBuffers
WIds == 1..MaxWrappers
Handles == 1..MaxHandles
Kinds == {"source", "sink", "listener"}
PIds == 1..MaxProperties
PropIdx == 1..NumProps

kNone == "none"     \* VideoProperty::kNone
\* VideoProperty::Type without kNone
PropTypes == {"boolean", "double", "string", "enum"}

VARIABLES
  f_state,     \* Frame object: "dead", "alive", "param" (the by-value
               \* parameter of an operator= that has swapped), or "releasing"
               \* (inside DecRef, the decrement returned 0 and ReleaseFrame
               \* is about to run)
  m_source,    \* Frame::m_source
  m_data,      \* Frame::m_data
  refcount,    \* Frame::Data::refcount
  timestamp,   \* Frame::Data::timestamp
  image,       \* Frame::Data::image, the payload bytes
  inPool,      \* backend: the buffer is in the reuse pool (not published)
  clock,       \* backend: capture clock, advanced by each publication
  released,    \* ReleaseFrame calls for the buffer's current publication
  f_orig,      \* what the Frame read (time, image) when it was attached
  last,        \* the operation that produced this state
  seq,         \* the copy-then-destroy scenario: its phase, the buffer, the
               \* copies made and the destructions completed ("off" in Spec)
  w_state,     \* wrapper object: "dead", "alive", or "temp" (the by-value
               \* parameter of an operator= that has swapped and not yet
               \* destroyed it)
  w_kind,      \* the wrapper's class: VideoSource, VideoSink or a listener
  m_handle,    \* VideoSource::m_handle, VideoSink::m_handle, ...Listener::m_handle
  m_status,    \* VideoSource::m_status, VideoSink::m_status
  h_refs,      \* backend: outstanding references of a handle (0: no entry)
  h_kind,      \* backend: the kind of the entry
  owed,        \* per identifier: the times a create or copy handed it to a
               \* wrapper, less the release (deregistration) calls the
               \* backend accepted for it
  badRel,      \* the backend rejected a release: for 0 or for no live entry
  wlast,       \* the wrapper operation that produced this state: its name,
               \* the backend call it made and what the call returned
  classes,     \* the wrapper classes the run's threads use
  bound,       \* backend: the source identifier a sink entry stores (0: none)
  p_state,     \* VideoProperty object: "dead" or "alive"
  p_handle,    \* VideoProperty::m_handle: 0, or <<owner, index>> for the
               \* index-th property of the source with identifier owner
  p_type,      \* VideoProperty::m_type
  p_status,    \* VideoProperty::m_status
  alast,       \* the accessor call that produced this state: the status the
               \* object held before it, whether it reached the backend, the
               \* status the backend reported and what the call returned
  pending,     \* backend: listener identifiers with an event in flight
  lateFire     \* a listener's callback ran with no listener object alive

fvars == <<f_state, m_source, m_data, refcount, timestamp, image, inPool,
           clock, released, f_orig, last>>

wvars == <<w_state, w_kind, m_handle, m_status, h_refs, h_kind, owed, badRel,
           wlast, classes>>

pvars == <<p_state, p_handle, p_type, p_status, alast>>

lvars == <<pending, lateFire>>

xvars == <<bound, pvars, lvars>>

vars == <<fvars, seq, wvars, xvars>>

NoRead == [time |-> Epoch, image |-> <<>>]

Op(o, f, g, b) == [op |-> o, f |-> f, g |-> g, b |-> b]

\* ------------------------------------------------------ Frame accessors
FrameBool(f) == m_data[f] # NULL

size(f) == IF m_data[f] = NULL THEN 0 ELSE Len(image[m_data[f]])

data(f) == IF m_data[f] = NULL THEN NULL ELSE m_data[f]

time(f) == IF m_data[f] = NULL THEN Epoch ELSE timestamp[m_data[f]]

\* what a reader sees through the Frame
Read(f) ==
  IF m_data[f] = NULL THEN NoRead
  ELSE [time |-> time(f), image |-> image[data(f)]]

\* ------------------------------------------------- reference counting
IncRef_Skip(rc, d) == rc

\* if (m_data) ++(m_data->refcount);
IncRef(rc, d) == IF d # NULL THEN [rc EXCEPT ![d] = @ + 1] ELSE rc

DecCount_Skip(rc, d) == rc

\* --(m_data->refcount), guarded by m_data
DecCount(rc, d) == IF d # NULL THEN [rc EXCEPT ![d] = @ - 1] ELSE rc

IsLast_Early(rc, d) == d # NULL /\ rc[d] <= 1

IsLast_Never(rc, d) == FALSE

IsLast_NoGuard(rc, d) == d = NULL \/ rc[d] = 0

\* m_data && --(m_data->refcount) == 0, on the decremented counter
IsLast(rc, d) == d # NULL /\ rc[d] = 0

\* a new Frame object takes the first free slot, a publication the first
\* buffer of the pool: objects and buffers are interchangeable
Fresh(f) == f_state[f] = "dead" /\ \A g \in 1..(f - 1) : f_state[g] # "dead"

FirstFree(b) == inPool[b] /\ \A c \in 1..(b - 1) : ~inPool[c]

InitFrames ==
  /\ f_state = [f \in FrameIds |-> "dead"]
  /\ m_source = [f \in FrameIds |-> NULL]
  /\ m_data = [f \in FrameIds |-> NULL]
  /\ refcount = [b \in Buffers |-> 0]
  /\ timestamp = [b \in Buffers |-> Epoch]
  /\ image = [b \in Buffers |-> <<>>]
  /\ inPool = [b \in Buffers |-> TRUE]
  /\ clock = 0
  /\ released = [b \in Buffers |-> 0]
  /\ f_orig = [f \in FrameIds |-> NoRead]
  /\ last = Op("init", 0, 0, NULL)

Scn(p, b, n, d) == [phase |-> p, b |-> b, n |-> n, d |-> d]

WOp(o, call, ret) == [op |-> o, call |-> call, ret |-> ret]

InitWrappers ==
  /\ w_state = [w \in WIds |-> "dead"]
  /\ w_kind = [w \in WIds |-> "source"]
  /\ m_handle = [w \in WIds |-> 0]
  /\ m_status = [w \in WIds |-> StatusOk]
  /\ h_refs = [h \in Handles |-> 0]
  /\ h_kind = [h \in Handles |-> "source"]
  /\ owed = [h \in Handles |-> 0]
  /\ badRel = FALSE
  /\ wlast = WOp("init", "none", 0)

AOp(o, was, call, rep, ret) ==
  [op |-> o, was |-> was, call |-> call, rep |-> rep, ret |-> ret]

InitExtra ==
  /\ bound = [h \in Handles |-> 0]
  /\ p_state = [p \in PIds |-> "dead"]
  /\ p_handle = [p \in PIds |-> 0]
  /\ p_type = [p \in PIds |-> kNone]
  /\ p_status = [p \in PIds |-> StatusOk]
  /\ alast = AOp("init", StatusOk, "none", StatusOk, "none")
  /\ pending = {}
  /\ lateFire = FALSE

Init ==
  /\ InitFrames
  /\ InitWrappers
  /\ InitExtra
  /\ seq = Scn("off", NULL, 0, 0)
  /\ classes = {}

\* a run on wrappers of one class
InitHandle ==
  /\ InitFrames
  /\ InitWrappers
  /\ InitExtra
  /\ seq = Scn("off", NULL, 0, 0)
  /\ classes \in {{k} : k \in Kinds}

\* Frame() noexcept
DefaultConstruct(f) ==
  /\ Fresh(f)
  /\ f_state' = [f_state EXCEPT ![f] = "alive"]
  /\ m_source' = [m_source EXCEPT ![f] = NULL]
  /\ m_data' = [m_data EXCEPT ![f] = NULL]
  /\ f_orig' = [f_orig EXCEPT ![f] = NoRead]
  /\ last' = Op("default", f, 0, NULL)
  /\ UNCHANGED <<refcount, timestamp, image, inPool, clock, released>>

\* Frame(SourceImpl& source, Data* data) on a buffer the backend took from
\* its pool and filled: the publication of a frame
Publish(f, b, n) ==
  /\ Fresh(f)
  /\ FirstFree(b)
  /\ clock < MaxPublish
  /\ clock' = clock + 1
  /\ inPool' = [inPool EXCEPT ![b] = FALSE]
  /\ timestamp' = [timestamp EXCEPT ![b] = clock + 1]
  /\ image' = [image EXCEPT ![b] = [i \in 1..n |-> clock + 1]]
  /\ released' = [released EXCEPT ![b] = 0]
  /\ f_state' = [f_state EXCEPT ![f] = "alive"]
  /\ m_source' = [m_source EXCEPT ![f] = TheSource]
  /\ m_data' = [m_data EXCEPT ![f] = b]
  /\ refcount' = IncRef(refcount, b)
  /\ f_orig' = [f_orig EXCEPT
                  ![f] = [time |-> clock + 1, image |-> [i \in 1..n |-> clock + 1]]]
  /\ last' = Op("publish", f, 0, b)

\* Frame(SourceImpl& source, Data* data) with data == nullptr
ConstructNull(f) ==
  /\ Fresh(f)
  /\ f_state' = [f_state EXCEPT ![f] = "alive"]
  /\ m_source' = [m_source EXCEPT ![f] = TheSource]
  /\ m_data' = [m_data EXCEPT ![f] = NULL]
  /\ refcount' = IncRef(refcount, NULL)
  /\ f_orig' = [f_orig EXCEPT ![f] = NoRead]
  /\ last' = Op("backendnull", f, 0, NULL)
  /\ UNCHANGED <<timestamp, image, inPool, clock, released>>

\* Frame(const Frame& frame) noexcept: f is constructed from g
CopyConstruct(f, g) ==
  /\ Fresh(f)
  /\ f_state[g] = "alive"
  /\ f_state' = [f_state EXCEPT ![f] = "alive"]
  /\ m_source' = [m_source EXCEPT ![f] = m_source[g]]
  /\ m_data' = [m_data EXCEPT ![f] = m_data[g]]
  /\ refcount' = IncRef(refcount, m_data[g])
  /\ f_orig' = [f_orig EXCEPT ![f] = Read(g)]
  /\ last' = Op("copy", f, g, m_data[g])
  /\ UNCHANGED <<timestamp, image, inPool, clock, released>>

SwapNone(fn, a, b) == fn

\* swap(first.m_x, second.m_x)
Swap(fn, a, b) == [fn EXCEPT ![a] = fn[b], ![b] = fn[a]]

\* Frame(Frame&& other) noexcept : Frame() { swap(*this, other); }
MoveConstruct(f, g) ==
  /\ Fresh(f)
  /\ f_state[g] = "alive"
  /\ f_state' = [f_state EXCEPT ![f] = "alive"]
  /\ m_source' = Swap([m_source EXCEPT ![f] = NULL], f, g)
  /\ m_data' = Swap([m_data EXCEPT ![f] = NULL], f, g)
  /\ f_orig' = Swap([f_orig EXCEPT ![f] = NoRead], f, g)
  /\ last' = Op("move", f, g, m_data[g])
  /\ UNCHANGED <<refcount, timestamp, image, inPool, clock, released>>

\* ~Frame() { DecRef(); }: the guarded atomic decrement.  When the decrement
\* returns 0 the destructor goes on to ReleaseFrame, else it is complete.
DecRef(f, st, o) ==
  /\ f_state[f] = st
  /\ refcount' = DecCount(refcount, m_data[f])
  /\ IF IsLast(refcount', m_data[f])
     THEN /\ f_state' = [f_state EXCEPT ![f] = "releasing"]
          /\ UNCHANGED <<m_source, m_data>>
     ELSE /\ f_state' = [f_state EXCEPT ![f] = "dead"]
          /\ m_source' = [m_source EXCEPT ![f] = NULL]
          /\ m_data' = [m_data EXCEPT ![f] = NULL]
  /\ f_orig' = [f_orig EXCEPT ![f] = NoRead]
  /\ last' = Op(o, f, 0, m_data[f])
  /\ UNCHANGED <<timestamp, image, inPool, clock, released>>

Destroy(f) == DecRef(f, "alive", "decref")

\* Frame::ReleaseFrame(): the reclamation notification to the owning
\* backend, which returns the buffer to its pool; ends ~Frame
ReleaseFrame(f) ==
  /\ f_state[f] = "releasing"
  /\ inPool' = [inPool EXCEPT ![m_data[f]] = TRUE]
  /\ released' = [released EXCEPT ![m_data[f]] = @ + 1]
  /\ f_state' = [f_state EXCEPT ![f] = "dead"]
  /\ m_source' = [m_source EXCEPT ![f] = NULL]
  /\ m_data' = [m_data EXCEPT ![f] = NULL]
  /\ last' = Op("release", f, 0, m_data[f])
  /\ UNCHANGED <<refcount, timestamp, image, clock, f_orig>>

\* Frame(SourceImpl& source, Data* data) on a buffer that is already
\* published: the backend attaches one more Frame through its Data*
Attach(f, b) ==
  /\ Fresh(f)
  /\ ~inPool[b]
  /\ f_state' = [f_state EXCEPT ![f] = "alive"]
  /\ m_source' = [m_source EXCEPT ![f] = TheSource]
  /\ m_data' = [m_data EXCEPT ![f] = b]
  /\ refcount' = IncRef(refcount, b)
  /\ f_orig' = [f_orig EXCEPT ![f] = [time |-> timestamp[b], image |-> image[b]]]
  /\ last' = Op("attach", f, 0, b)
  /\ UNCHANGED <<timestamp, image, inPool, clock, released>>

\* ------------------------------------------------------ specifications
\* Frames published by the backend, then copied, moved and destroyed by any
\* number of threads
Next ==
  \/ \E f \in FrameIds : DefaultConstruct(f) /\ UNCHANGED <<seq, wvars, xvars>>
  \/ \E f \in FrameIds, b \in Buffers, n \in PayloadSizes :
        Publish(f, b, n) /\ UNCHANGED <<seq, wvars, xvars>>
  \/ \E f \in FrameIds : ConstructNull(f) /\ UNCHANGED <<seq, wvars, xvars>>
  \/ \E f, g \in FrameIds : CopyConstruct(f, g) /\ UNCHANGED <<seq, wvars, xvars>>
  \/ \E f, g \in FrameIds : MoveConstruct(f, g) /\ UNCHANGED <<seq, wvars, xvars>>
  \/ \E f \in FrameIds : Destroy(f) /\ UNCHANGED <<seq, wvars, xvars>>
  \/ \E f \in FrameIds : ReleaseFrame(f) /\ UNCHANGED <<seq, wvars, xvars>>

Spec == Init /\ [][Next]_vars

\* The same, with the backend also attaching Frames to published buffers
\* through the raw Data* at any time
NextAttach ==
  \/ Next
  \/ \E f \in FrameIds, b \in Buffers : Attach(f, b) /\ UNCHANGED <<seq, wvars, xvars>>

SpecAttach == Init /\ [][NextAttach]_vars

\* One published Frame, N copies, then N + 1 destructions, one after the
\* other; the buffer may then be published again
InitSeq ==
  /\ InitFrames
  /\ InitWrappers
  /\ InitExtra
  /\ seq = Scn("idle", NULL, 0, 0)
  /\ classes = {}

SeqPublish(f, b, n) ==
  /\ seq.phase = "idle"
  /\ Publish(f, b, n)
  /\ seq' = Scn("copy", b, 0, 0)
  /\ UNCHANGED <<wvars, xvars>>

SeqCopy(f, g) ==
  /\ seq.phase = "copy"
  /\ seq.n < MaxCopies
  /\ m_data[g] # NULL
  /\ CopyConstruct(f, g)
  /\ seq' = [seq EXCEPT !.n = @ + 1]
  /\ UNCHANGED <<wvars, xvars>>

SeqDestroy(f) ==
  /\ seq.phase \in {"copy", "destroy"}
  /\ m_data[f] # NULL
  /\ \A g \in FrameIds : f_state[g] # "releasing"
  /\ Destroy(f)
  /\ seq' = [seq EXCEPT !.phase = "destroy",
                        !.d = IF f_state'[f] = "dead" THEN @ + 1 ELSE @]
  /\ UNCHANGED <<wvars, xvars>>

SeqRelease(f) ==
  /\ ReleaseFrame(f)
  /\ seq' = [seq EXCEPT !.phase = "idle", !.d = @ + 1]
  /\ UNCHANGED <<wvars, xvars>>

NextSeq ==
  \/ \E f \in FrameIds, b \in Buffers, n \in PayloadSizes : SeqPublish(f, b, n)
  \/ \E f, g \in FrameIds : SeqCopy(f, g)
  \/ \E f \in FrameIds : SeqDestroy(f)
  \/ \E f \in FrameIds : SeqRelease(f)

SpecSeq == InitSeq /\ [][NextSeq]_vars

\* ---------------------------------------------------- Frame assignment
AssignCopy_DecFirst(a, b, t) ==
  /\ Fresh(t)
  /\ f_state[a] = "alive" /\ f_state[b] = "alive"
  /\ refcount' = IncRef(DecCount(refcount, m_data[a]), m_data[b])
  /\ m_source' = [m_source EXCEPT ![a] = m_source[b], ![t] = NULL]
  /\ m_data' = [m_data EXCEPT ![a] = m_data[b], ![t] = NULL]
  /\ f_orig' = [f_orig EXCEPT ![a] = Read(b), ![t] = NoRead]
  /\ f_state' = [f_state EXCEPT ![t] = "param"]
  /\ last' = Op("assigncopy", a, b, m_data[b])
  /\ UNCHANGED <<timestamp, image, inPool, clock, released>>

\* Frame& operator=(Frame other) noexcept, called as a = b: other (t) is
\* copy constructed from b, then swap(*this, other)
AssignCopy(a, b, t) ==
  /\ Fresh(t)
  /\ f_state[a] = "alive" /\ f_state[b] = "alive"
  /\ refcount' = IncRef(refcount, m_data[b])
  /\ m_source' = Swap([m_source EXCEPT ![t] = m_source[b]], a, t)
  /\ m_data' = Swap([m_data EXCEPT ![t] = m_data[b]], a, t)
  /\ f_orig' = Swap([f_orig EXCEPT ![t] = Read(b)], a, t)
  /\ f_state' = [f_state EXCEPT ![t] = "param"]
  /\ last' = Op("assigncopy", a, b, m_data[b])
  /\ UNCHANGED <<timestamp, image, inPool, clock, released>>

\* operator= called as a = std::move(b): other (t) is move constructed from
\* b, then swap(*this, other)
AssignMove(a, b, t) ==
  /\ Fresh(t)
  /\ f_state[a] = "alive" /\ f_state[b] = "alive"
  /\ m_source' = Swap(Swap([m_source EXCEPT ![t] = NULL], t, b), a, t)
  /\ m_data' = Swap(Swap([m_data EXCEPT ![t] = NULL], t, b), a, t)
  /\ f_orig' = Swap(Swap([f_orig EXCEPT ![t] = NoRead], t, b), a, t)
  /\ f_state' = [f_state EXCEPT ![t] = "param"]
  /\ last' = Op("assignmove", a, b, m_data[b])
  /\ UNCHANGED <<refcount, timestamp, image, inPool, clock, released>>

\* the end of operator=: ~Frame of the parameter other
AssignEnd(t) == DecRef(t, "param", "assignend")

\* Frames published (one byte of payload each), assigned to one another
\* and destroyed by any number of threads
NextAssign ==
  \/ \E f \in FrameIds, b \in Buffers :
        Publish(f, b, 1) /\ UNCHANGED <<seq, wvars, xvars>>
  \/ \E a, b, t \in FrameIds : AssignCopy(a, b, t) /\ UNCHANGED <<seq, wvars, xvars>>
  \/ \E a, b, t \in FrameIds : AssignMove(a, b, t) /\ UNCHANGED <<seq, wvars, xvars>>
  \/ \E t \in FrameIds : AssignEnd(t) /\ UNCHANGED <<seq, wvars, xvars>>
  \/ \E f \in FrameIds : Destroy(f) /\ UNCHANGED <<seq, wvars, xvars>>
  \/ \E f \in FrameIds : ReleaseFrame(f) /\ UNCHANGED <<seq, wvars, xvars>>

SpecAssign == Init /\ [][NextAssign]_vars

\* ============================================ resource handle wrappers
\* a new wrapper object takes the first free slot
WFresh(w) == w_state[w] = "dead" /\ \A v \in 1..(w - 1) : w_state[v] # "dead"

\* the entry the backend allocates: the first free one, 0 when none is left
FreeHandle ==
  IF \E h \in Handles : h_refs[h] = 0
  THEN CHOOSE h \in Handles : h_refs[h] = 0 /\ \A g \in 1..(h - 1) : h_refs[g] # 0
  ELSE 0

HasStatus(k) == k # "listener"

\* ---- the backend: what a call returns and how it leaves the table
\* CreateXxxSource / CreateXxxSink / AddSourceListener / AddSinkListener
CreateRet(ok) == IF ok THEN FreeHandle ELSE 0

\* CopySource / CopySink: one more reference on a live entry of that kind,
\* the same identifier returned
CopyRet(k, h, ok) ==
  IF ok /\ h \in Handles /\ h_refs[h] > 0 /\ h_kind[h] = k THEN h ELSE 0

\* ReleaseSource / ReleaseSink / RemoveSourceListener / RemoveSinkListener
ReleaseOk(k, h) == h \in Handles /\ h_refs[h] > 0 /\ h_kind[h] = k

CallsCopy_Always(h) == TRUE

\* source.m_handle == 0 ? 0 : CopySource(source.m_handle, &m_status)
CallsCopy(h) == h # 0

CallsRelease_Always(h) == TRUE

CallsRelease_Never(h) == FALSE

\* if (m_handle != 0) ReleaseSource(m_handle, &m_status);
CallsRelease(h) == h # 0

\* swap(first, second) of two wrappers, on one of their members
WSwap(fn, a, b) == [fn EXCEPT ![a] = fn[b], ![b] = fn[a]]

\* VideoSource() / VideoSink() / SourceListener() / SinkListener()
WDefault(w, k) ==
  /\ WFresh(w)
  /\ k \in classes
  /\ w_state' = [w_state EXCEPT ![w] = "alive"]
  /\ w_kind' = [w_kind EXCEPT ![w] = k]
  /\ m_handle' = [m_handle EXCEPT ![w] = 0]
  /\ m_status' = [m_status EXCEPT ![w] = StatusOk]
  /\ wlast' = WOp("default", "none", 0)
  /\ UNCHANGED <<h_refs, h_kind, owed, badRel, classes>>

\* USBCamera / HTTPCamera / CvSource / HTTPSink / CvSink constructors:
\*   m_handle = CreateXxx(name, ..., &m_status);
\* SourceListener / SinkListener constructors:
\*   CS_Status status = 0; m_handle = AddXxxListener(..., &status);
WCreate(w, k, ok) ==
  /\ WFresh(w)
  /\ k \in classes
  /\ LET h == CreateRet(ok) IN
       /\ w_state' = [w_state EXCEPT ![w] = "alive"]
       /\ w_kind' = [w_kind EXCEPT ![w] = k]
       /\ m_handle' = [m_handle EXCEPT ![w] = h]
       /\ m_status' = [m_status EXCEPT
            ![w] = IF h = 0 /\ HasStatus(k) THEN StatusErr ELSE StatusOk]
       /\ h_refs' = IF h # 0 THEN [h_refs EXCEPT ![h] = 1] ELSE h_refs
       /\ h_kind' = IF h # 0 THEN [h_kind EXCEPT ![h] = k] ELSE h_kind
       /\ owed' = IF h # 0 THEN [owed EXCEPT ![h] = @ + 1] ELSE owed
       /\ wlast' = WOp("create", "create", h)
  /\ UNCHANGED <<badRel, classes>>

\* the by-value result of copying wrapper v: its handle and status, the
\* backend call made and the table after it
CopyOf(v, ok) ==
  LET h == m_handle[v]
      k == w_kind[v]
      r == IF CallsCopy(h) THEN CopyRet(k, h, ok) ELSE 0
  IN [handle |-> r,
      status |-> IF CallsCopy(h) /\ r = 0 THEN StatusErr ELSE StatusOk,
      call   |-> IF CallsCopy(h) THEN "copy" ELSE "none",
      refs   |-> IF r # 0 THEN [h_refs EXCEPT ![r] = @ + 1] ELSE h_refs,
      owed   |-> IF r # 0 THEN [owed EXCEPT ![r] = @ + 1] ELSE owed]

\* VideoSource(const VideoSource&) / VideoSink(const VideoSink&): w from v
WCopy(w, v, ok) ==
  /\ WFresh(w)
  /\ w_state[v] = "alive"
  /\ w_kind[v] # "listener"
  /\ LET c == CopyOf(v, ok) IN
       /\ w_state' = [w_state EXCEPT ![w] = "alive"]
       /\ w_kind' = [w_kind EXCEPT ![w] = w_kind[v]]
       /\ m_handle' = [m_handle EXCEPT ![w] = c.handle]
       /\ m_status' = [m_status EXCEPT ![w] = c.status]
       /\ h_refs' = c.refs
       /\ owed' = c.owed
       /\ wlast' = WOp("copy", c.call, c.handle)
  /\ UNCHANGED <<h_kind, badRel, classes>>

WMove_AsCopy(w, v) ==
  /\ WFresh(w)
  /\ w_state[v] = "alive"
  /\ w_state' = [w_state EXCEPT ![w] = "alive"]
  /\ w_kind' = [w_kind EXCEPT ![w] = w_kind[v]]
  /\ m_handle' = [m_handle EXCEPT ![w] = m_handle[v]]
  /\ m_status' = [m_status EXCEPT ![w] = m_status[v]]
  /\ wlast' = WOp("move", "none", 0)
  /\ UNCHANGED <<h_refs, h_kind, owed, badRel, classes>>

\* VideoSource(VideoSource&&) / VideoSink(VideoSink&&) /
\* SourceListener(SourceListener&&) / SinkListener(SinkListener&&):
\*   : X() { swap(*this, other); }
WMove(w, v) ==
  /\ WFresh(w)
  /\ w_state[v] = "alive"
  /\ w_state' = [w_state EXCEPT ![w] = "alive"]
  /\ w_kind' = [w_kind EXCEPT ![w] = w_kind[v]]
  /\ m_handle' = WSwap([m_handle EXCEPT ![w] = 0], w, v)
  /\ m_status' = WSwap([m_status EXCEPT ![w] = StatusOk], w, v)
  /\ wlast' = WOp("move", "none", 0)
  /\ UNCHANGED <<h_refs, h_kind, owed, badRel, classes>>

\* the destructor body, for an object in state st:
\*   m_status = 0; if (m_handle != 0) ReleaseXxx(m_handle, &m_status);
\*   CS_Status status = 0; if (m_handle != 0) RemoveXxxListener(m_handle, &status);
Destruct(w, st, o) ==
  /\ w_state[w] = st
  /\ LET h == m_handle[w]
         k == w_kind[w]
         call == CallsRelease(h)
         good == call /\ ReleaseOk(k, h)
     IN
       /\ h_refs' = IF good THEN [h_refs EXCEPT ![h] = @ - 1] ELSE h_refs
       /\ h_kind' = IF good /\ h_refs[h] = 1
                    THEN [h_kind EXCEPT ![h] = "source"] ELSE h_kind
       /\ owed' = IF good THEN [owed EXCEPT ![h] = @ - 1] ELSE owed
       /\ badRel' = (badRel \/ (call /\ ~good))
       /\ wlast' = WOp(o, IF call THEN "release" ELSE "none", 0)
  /\ w_state' = [w_state EXCEPT ![w] = "dead"]
  /\ w_kind' = [w_kind EXCEPT ![w] = "source"]
  /\ m_handle' = [m_handle EXCEPT ![w] = 0]
  /\ m_status' = [m_status EXCEPT ![w] = StatusOk]
  /\ UNCHANGED classes

\* ~VideoSource / ~VideoSink / ~SourceListener / ~SinkListener
WDestroy(w) == Destruct(w, "alive", "destroy")

WAssignCopy_ReleaseFirst(a, b, t, ok) ==
  /\ WFresh(t)
  /\ w_state[a] = "alive" /\ w_state[b] = "alive"
  /\ w_kind[a] = w_kind[b] /\ w_kind[a] # "listener"
  /\ LET old == m_handle[a]
         refs1 == IF old # 0 THEN [h_refs EXCEPT ![old] = @ - 1] ELSE h_refs
         owed1 == IF old # 0 THEN [owed EXCEPT ![old] = @ - 1] ELSE owed
         h == m_handle[b]
         r == IF h # 0 /\ ok /\ refs1[h] > 0 THEN h ELSE 0
     IN
       /\ m_handle' = [m_handle EXCEPT ![a] = r, ![t] = 0]
       /\ m_status' = [m_status EXCEPT
            ![a] = IF h # 0 /\ r = 0 THEN StatusErr ELSE StatusOk,
            ![t] = StatusOk]
       /\ h_refs' = IF r # 0 THEN [refs1 EXCEPT ![r] = @ + 1] ELSE refs1
       /\ owed' = IF r # 0 THEN [owed1 EXCEPT ![r] = @ + 1] ELSE owed1
       /\ wlast' = WOp("assigncopy", IF h # 0 THEN "copy" ELSE "none", r)
  /\ w_state' = [w_state EXCEPT ![t] = "temp"]
  /\ w_kind' = [w_kind EXCEPT ![t] = w_kind[a]]
  /\ UNCHANGED <<h_kind, badRel, classes>>

\* VideoSource::operator=(VideoSource other) / VideoSink::operator=, called
\* as a = b: other (t) is copy constructed from b, then swap(*this, other)
WAssignCopy(a, b, t, ok) ==
  /\ WFresh(t)
  /\ w_state[a] = "alive" /\ w_state[b] = "alive"
  /\ w_kind[a] = w_kind[b] /\ w_kind[a] # "listener"
  /\ LET c == CopyOf(b, ok) IN
       /\ m_handle' = WSwap([m_handle EXCEPT ![t] = c.handle], a, t)
       /\ m_status' = WSwap([m_status EXCEPT ![t] = c.status], a, t)
       /\ h_refs' = c.refs
       /\ owed' = c.owed
       /\ wlast' = WOp("assigncopy", c.call, c.handle)
  /\ w_state' = [w_state EXCEPT ![t] = "temp"]
  /\ w_kind' = [w_kind EXCEPT ![t] = w_kind[a]]
  /\ UNCHANGED <<h_kind, badRel, classes>>

\* operator= called as a = std::move(b): other (t) is move constructed from
\* b, then swap(*this, other)
WAssignMove(a, b, t) ==
  /\ WFresh(t)
  /\ w_state[a] = "alive" /\ w_state[b] = "alive"
  /\ w_kind[a] = w_kind[b] /\ w_kind[a] # "listener"
  /\ m_handle' = WSwap(WSwap([m_handle EXCEPT ![t] = 0], t, b), a, t)
  /\ m_status' = WSwap(WSwap([m_status EXCEPT ![t] = StatusOk], t, b), a, t)
  /\ w_state' = [w_state EXCEPT ![t] = "temp"]
  /\ w_kind' = [w_kind EXCEPT ![t] = w_kind[a]]
  /\ wlast' = WOp("assignmove", "none", 0)
  /\ UNCHANGED <<h_refs, h_kind, owed, badRel, classes>>

\* the end of operator=: the parameter other is destroyed
WAssignEnd(t) == Destruct(t, "temp", "assignend")

NextHandle ==
  \/ \E w \in WIds, k \in Kinds : WDefault(w, k) /\ UNCHANGED <<fvars, seq, xvars>>
  \/ \E w \in WIds, k \in Kinds, ok \in BOOLEAN :
        WCreate(w, k, ok) /\ UNCHANGED <<fvars, seq, xvars>>
  \/ \E w, v \in WIds, ok \in BOOLEAN : WCopy(w, v, ok) /\ UNCHANGED <<fvars, seq, xvars>>
  \/ \E w, v \in WIds : WMove(w, v) /\ UNCHANGED <<fvars, seq, xvars>>
  \/ \E w \in WIds : WDestroy(w) /\ UNCHANGED <<fvars, seq, xvars>>
  \/ \E a, b, t \in WIds, ok \in BOOLEAN :
        WAssignCopy(a, b, t, ok) /\ UNCHANGED <<fvars, seq, xvars>>
  \/ \E a, b, t \in WIds : WAssignMove(a, b, t) /\ UNCHANGED <<fvars, seq, xvars>>
  \/ \E t \in WIds : WAssignEnd(t) /\ UNCHANGED <<fvars, seq, xvars>>

\* Source, Sink and Listener wrappers created, copied, moved, assigned and
\* destroyed by any number of threads
SpecHandle == InitHandle /\ [][NextHandle]_vars

\* =========================================================== claims
Alive(f) == f_state[f] = "alive"

\* the live non-null Frames attached to buffer b
Attached(b) == {f \in FrameIds : Alive(f) /\ m_data[f] = b}

\* the Frames inside ~Frame whose decrement returned 0
Releasing(b) == {f \in FrameIds : f_state[f] = "releasing" /\ m_data[f] = b}

Quiescent == \A f \in FrameIds : f_state[f] # "releasing"

\* C1: for one published buffer, under every interleaving of copies and
\* destructions, ReleaseFrame fires at most once: at most one decrement
\* observes zero (counting the one whose notification is still pending),
\* and the decrement that observes it is the one that took the count to 0.
C1_ReleaseAtMostOnce ==
  \A b \in Buffers :
    /\ released[b] + Cardinality(Releasing(b)) <= 1
    /\ Releasing(b) # {} => refcount[b] = 0
    /\ released[b] = 1 => refcount[b] = 0

C1_Witness ==
  /\ last.op = "release"
  /\ released[last.b] = 1
  /\ clock = MaxPublish

\* C2: while a non-null Frame attached to a buffer is alive, the buffer is
\* not reclaimed (count > 0, no ReleaseFrame, not back in the pool) and the
\* Frame's size, data and timestamp read as the published values.
C2_NoPrematureReclaim ==
  \A f \in FrameIds :
    (Alive(f) /\ m_data[f] # NULL) =>
      /\ refcount[m_data[f]] > 0
      /\ released[m_data[f]] = 0
      /\ ~inPool[m_data[f]]
      /\ Releasing(m_data[f]) = {}
      /\ Read(f) = f_orig[f]
      /\ size(f) = Len(f_orig[f].image)
      /\ time(f) = f_orig[f].time
      /\ data(f) # NULL

\* another copy on the same buffer has just been destroyed
C2_Witness ==
  /\ last.op = "decref"
  /\ last.b # NULL
  /\ Attached(last.b) # {}
  /\ timestamp[last.b] = MaxPublish

\* C3: from a freshly published Frame, after N copies followed by N + 1
\* destructions the reclamation has fired exactly once, in the (N + 1)-th
\* destruction: none fired while at most N destructions were complete, and
\* the (N + 1)-th is complete only with the buffer reclaimed.
C3_ReclaimAfterLastDestroy ==
  (seq.phase # "off" /\ seq.b # NULL) =>
    /\ seq.d <= seq.n + 1
    /\ seq.d <= seq.n => (released[seq.b] = 0 /\ ~inPool[seq.b])
    /\ seq.d = seq.n + 1 => (released[seq.b] = 1 /\ inPool[seq.b])
    /\ last.op = "release" => seq.d = seq.n + 1

C3_Witness ==
  /\ seq.n = MaxCopies
  /\ seq.d = MaxCopies + 1
  /\ released[seq.b] = 1

C4_Counts ==
  \A b \in Buffers :
    /\ refcount[b] >= 0
    /\ Quiescent => refcount[b] = Cardinality(Attached(b))

C4_Steps ==
  /\ (last'.op = "copy" /\ last'.b # NULL) =>
       refcount' = [refcount EXCEPT ![last'.b] = @ + 1]
  /\ (last'.op = "decref" /\ last'.b # NULL) =>
       refcount' = [refcount EXCEPT ![last'.b] = @ - 1]

\* C4: when no Frame operation is in progress the count of a buffer is the
\* number of live Frames attached to it; a copy raises it by exactly one, a
\* destruction lowers it by exactly one, and it is never negative.
C4_CountIsLiveFrames == []C4_Counts /\ [][C4_Steps]_vars

\* a copy has been destroyed while the Frame it was made from is alive
C4_Witness ==
  /\ last.op = "decref"
  /\ last.b # NULL
  /\ refcount[last.b] = 1
  /\ Cardinality(Attached(last.b)) = 1

\* C5: the backend constructing a Frame from (source, data) may interleave
\* with copies and destructions of other Frames on the buffer: the buffer
\* is reclaimed at most once per publication and never while a Frame
\* attached to it is alive.
C5_AttachIsSafe ==
  \A b \in Buffers :
    /\ released[b] <= 1
    /\ Attached(b) # {} => (released[b] = 0 /\ ~inPool[b])

C6_Steps ==
  /\ last'.op = "move" =>
       /\ refcount' = refcount
       /\ released' = released
       /\ m_data'[last'.f] = m_data[last'.g]
       /\ m_source'[last'.f] = m_source[last'.g]
       /\ m_data'[last'.g] = NULL
       /\ m_source'[last'.g] = NULL
       /\ f_state'[last'.g] = "alive"
  /\ (last'.op = "decref" /\ last'.b = NULL) =>
       /\ refcount' = refcount
       /\ released' = released
       /\ inPool' = inPool
       /\ f_state'[last'.f] = "dead"

\* C6: move construction leaves every count unchanged, gives the new Frame
\* the buffer and source of the moved-from Frame and leaves that one null;
\* destroying a null Frame decrements nothing and reclaims nothing.
C6_MoveKeepsCount == [][C6_Steps]_vars

\* a Frame on a published buffer has just been moved into a new Frame
C6_Witness ==
  /\ last.op = "move"
  /\ last.b # NULL
  /\ m_data[last.f] = last.b
  /\ m_data[last.g] = NULL
  /\ refcount[last.b] = 2

C7_Accessors ==
  \A f \in FrameIds :
    (Alive(f) /\ m_data[f] = NULL) =>
      ~FrameBool(f) /\ size(f) = 0 /\ data(f) = NULL /\ time(f) = Epoch

C7_Steps ==
  /\ last'.op \in {"default", "backendnull"} =>
       (m_data'[last'.f] = NULL /\ refcount' = refcount)
  /\ last'.op = "move" => m_data'[last'.g] = NULL
  /\ (last'.op = "copy" /\ m_data[last'.g] = NULL) =>
       (m_data'[last'.f] = NULL /\ refcount' = refcount)
  /\ (last'.op = "decref" /\ m_data[last'.f] = NULL) =>
       /\ refcount' = refcount
       /\ released' = released
       /\ inPool' = inPool
       /\ f_state'[last'.f] = "dead"

\* C7: a null Frame reports false, size 0, a null data pointer and the
\* epoch; copying it gives a null Frame and touches no counter; destroying
\* it decrements nothing and notifies nothing.
C7_NullFrame == []C7_Accessors /\ [][C7_Steps]_vars

\* a copy of a Frame the backend built on a null data pointer was destroyed
C7_Witness ==
  /\ last.op = "decref"
  /\ last.b = NULL
  /\ \E f \in FrameIds : Alive(f) /\ m_data[f] = NULL /\ m_source[f] = TheSource
  /\ \E b \in Buffers : refcount[b] > 0

\* ------------------------------------------------ handle wrapper claims
\* the wrappers (parameters of a running operator= included) holding h
Holders(h) ==
  {w \in WIds : w_state[w] \in {"alive", "temp"} /\ m_handle[w] = h}

\* explicit operator bool() of a wrapper
Valid(w) == m_handle[w] # 0

C8_Counts ==
  /\ ~badRel
  /\ \A h \in Handles :
       /\ owed[h] = Cardinality(Holders(h))
       /\ h_refs[h] = owed[h]
       /\ h_refs[h] = 0 => Holders(h) = {}
  /\ (\A w \in WIds : w_state[w] = "dead") =>
       (\A h \in Handles : owed[h] = 0 /\ h_refs[h] = 0)

C8_Steps ==
  \A w \in WIds :
    (wlast'.op \in {"destroy", "assignend"}
       /\ (WDestroy(w) \/ WAssignEnd(w))) =>
      IF m_handle[w] # 0
      THEN /\ wlast'.call = "release"
           /\ owed' = [owed EXCEPT ![m_handle[w]] = @ - 1]
           /\ h_refs' = [h_refs EXCEPT ![m_handle[w]] = @ - 1]
      ELSE /\ wlast'.call = "none"
           /\ owed' = owed
           /\ h_refs' = h_refs

\* C8: over every sequence of create, copy, move, assignment and
\* destruction of Source, Sink (and Listener) wrappers, every identifier
\* acquired by a successful create or copy gets exactly one release call
\* and identifier 0 gets none: the calls still owed for an identifier are
\* the wrappers holding it, the backend entry lives exactly as long as a
\* wrapper holds it, and nothing is outstanding once all wrappers are gone.
C8_OneReleasePerReference == []C8_Counts /\ [][C8_Steps]_vars

\* an assignment a = b between two resources has just released a's old one
C8_Witness ==
  /\ wlast.op = "assignend"
  /\ wlast.call = "release"
  /\ \E h \in Handles : h_refs[h] = 2 /\ Cardinality(Holders(h)) = 2
  /\ \E h \in Handles : h_refs[h] = 0

C9_Steps ==
  /\ \A w, v \in WIds, ok \in BOOLEAN :
       (wlast'.op = "copy" /\ WCopy(w, v, ok)) =>
         /\ m_handle'[v] = m_handle[v]
         /\ m_status'[v] = m_status[v]
         /\ w_state'[v] = "alive"
         /\ IF m_handle[v] # 0
            THEN /\ wlast'.call = "copy"
                 /\ m_handle'[w] = wlast'.ret
                 /\ wlast'.ret \in {0, m_handle[v]}
                 /\ wlast'.ret # 0 =>
                      h_refs' = [h_refs EXCEPT ![m_handle[v]] = @ + 1]
                 /\ wlast'.ret = 0 =>
                      (m_status'[w] # StatusOk /\ h_refs' = h_refs)
            ELSE /\ wlast'.call = "none"
                 /\ m_handle'[w] = 0
                 /\ h_refs' = h_refs
                 /\ owed' = owed
  /\ \A w \in WIds :
       (m_handle[w] = 0 /\ m_status[w] # StatusOk /\ WDestroy(w)) =>
         (wlast'.call = "none" /\ h_refs' = h_refs /\ owed' = owed)

\* C9: copy constructing a Source or Sink wrapper from one with a non-zero
\* identifier makes one add-reference call and adopts what the backend
\* returns; when the backend fails the copy has identifier 0 and a nonzero
\* status, the original is unchanged and destroying the failed copy makes
\* no release call; copying identifier 0 makes no call and yields 0.
C9_CopyAdoptsBackendResult == [][C9_Steps]_vars

\* the backend has just failed a copy of a wrapper that holds a resource
C9_Witness ==
  /\ wlast.op = "copy"
  /\ wlast.call = "copy"
  /\ wlast.ret = 0
  /\ \E w \in WIds :
       w_state[w] = "alive" /\ m_handle[w] = 0 /\ m_status[w] = StatusErr
  /\ \E v \in WIds : w_state[v] = "alive" /\ Valid(v) /\ h_refs[m_handle[v]] = 1

C10_Steps ==
  /\ \A w, v \in WIds :
       (wlast'.op = "move" /\ WMove(w, v)) =>
         /\ wlast'.call = "none"
         /\ h_refs' = h_refs
         /\ owed' = owed
         /\ m_handle'[w] = m_handle[v]
         /\ m_handle'[v] = 0
         /\ m_status'[v] = StatusOk
         /\ w_state'[v] = "alive"
         /\ ~Valid(v)'
  /\ \A w \in WIds :
       (~Valid(w) /\ WDestroy(w)) =>
         (wlast'.call = "none" /\ h_refs' = h_refs /\ owed' = owed /\ ~badRel')

\* C10: move constructing a Source, Sink or Listener wrapper hands the
\* identifier to the new wrapper without a backend call and leaves the
\* moved-from wrapper like a default-constructed one: identifier 0,
\* invalid, and destroyed without a release or deregistration call.
C10_MoveLeavesEmpty == [][C10_Steps]_vars

\* a listener holding a registration has just been moved
C10_Witness ==
  /\ wlast.op = "move"
  /\ classes = {"listener"}
  /\ \E w, v \in WIds :
       /\ w_state[w] = "alive" /\ Valid(w) /\ h_refs[m_handle[w]] = 1
       /\ w_state[v] = "alive" /\ ~Valid(v)

\* ================================================ sink to source binding
\* the backend's entry for identifier h is live and of kind k
Live(refs, k, h) == h \in Handles /\ refs[h] > 0 /\ h_kind[h] = k

\* the backend drops the binding of a sink entry that is gone and every
\* binding to a source entry that is gone (refs: the table after the step)
UnbindDead(bnd, refs) ==
  [s \in Handles |->
     IF refs[s] = 0 \/ (bnd[s] # 0 /\ refs[bnd[s]] = 0) THEN 0 ELSE bnd[s]]

InitSink ==
  /\ InitFrames
  /\ InitWrappers
  /\ InitExtra
  /\ seq = Scn("off", NULL, 0, 0)
  /\ classes = {"source", "sink"}

\* void VideoSink::SetSource(VideoSource source), called as s.SetSource(v):
\* the parameter is copy constructed from v,
\*   m_status = 0;
\*   if (!source) SetSinkSource(m_handle, 0, &m_status);
\*   else SetSinkSource(m_handle, source.m_handle, &m_status);
\* and the parameter is destroyed when the call returns
SetSource(s, v, ok) ==
  /\ w_state[s] = "alive" /\ w_kind[s] = "sink"
  /\ w_state[v] = "alive" /\ w_kind[v] = "source"
  /\ LET c == CopyOf(v, ok)
         arg == IF c.handle = 0 THEN 0 ELSE c.handle
         sh == m_handle[s]
         set == Live(c.refs, "sink", sh)
                  /\ (arg = 0 \/ Live(c.refs, "source", arg))
         rel == CallsRelease(c.handle)
         good == rel /\ Live(c.refs, "source", c.handle)
         refs2 == IF good THEN [c.refs EXCEPT ![c.handle] = @ - 1] ELSE c.refs
     IN
       /\ m_status' = [m_status EXCEPT
                         ![s] = IF set THEN StatusOk ELSE StatusErr]
       /\ h_refs' = refs2
       /\ owed' = IF good THEN [c.owed EXCEPT ![c.handle] = @ - 1] ELSE c.owed
       /\ badRel' = (badRel \/ (rel /\ ~good))
       /\ bound' = UnbindDead(IF set THEN [bound EXCEPT ![sh] = arg] ELSE bound,
                              refs2)
       /\ wlast' = WOp("setsource", "setsinksource", arg)
  /\ UNCHANGED <<w_state, w_kind, m_handle, h_kind, classes>>

\* VideoSource VideoSink::GetSource() const, the result constructed in w:
\*   m_status = 0;
\*   return VideoSource{GetSinkSource(m_handle, &m_status)};
\* the backend returns the identifier it stores for the sink
GetSource(w, s) ==
  /\ WFresh(w)
  /\ w_state[s] = "alive" /\ w_kind[s] = "sink"
  /\ LET sh == m_handle[s]
         found == Live(h_refs, "sink", sh)
         r == IF found THEN bound[sh] ELSE 0
     IN
       /\ w_state' = [w_state EXCEPT ![w] = "alive"]
       /\ w_kind' = [w_kind EXCEPT ![w] = "source"]
       /\ m_handle' = [m_handle EXCEPT ![w] = r]
       /\ m_status' = [m_status EXCEPT
                         ![w] = StatusOk,
                         ![s] = IF found THEN StatusOk ELSE StatusErr]
       /\ wlast' = WOp("getsource", "getsinksource", r)
  /\ UNCHANGED <<h_refs, h_kind, owed, badRel, classes, bound>>

\* ~VideoSource / ~VideoSink, with the backend's bookkeeping of bindings
SinkDestroy(w) ==
  /\ WDestroy(w)
  /\ bound' = UnbindDead(bound, h_refs')

\* Sources and sinks created, bound, queried and destroyed
NextSink ==
  \/ \E w \in WIds : WDefault(w, "source") /\ UNCHANGED <<fvars, seq, xvars>>
  \/ \E w \in WIds, k \in Kinds :
        WCreate(w, k, TRUE) /\ UNCHANGED <<fvars, seq, xvars>>
  \/ \E s, v \in WIds, ok \in BOOLEAN : SetSource(s, v, ok) /\ UNCHANGED <<fvars, seq, pvars, lvars>>
  \/ \E w, s \in WIds : GetSource(w, s) /\ UNCHANGED <<fvars, seq, pvars, lvars>>
  \/ \E w \in WIds : SinkDestroy(w) /\ UNCHANGED <<fvars, seq, pvars, lvars>>

SpecSink == InitSink /\ [][NextSink]_vars

\* ============================================ accessors and properties
\* a CS_Property: the index-th property of the source with identifier h
PropHandle(h, q) == (h - 1) * NumProps + q

Owner(ph) == ((ph - 1) \div NumProps) + 1

Index(ph) == ((ph - 1) % NumProps) + 1

\* backend: the declared type of a source's index-th property
DeclType(q) ==
  CASE q = 1 -> "double"
    [] q = 2 -> "enum"
    [] q = 3 -> "boolean"
    [] OTHER -> "string"

\* what an accessor asks for: a value of one type, or the name / the range,
\* which every property has
Wants == PropTypes \cup {"name"}

\* backend: the status a call on a source or sink identifier reports
Report(k, h) == IF Live(h_refs, k, h) THEN StatusOk ELSE StatusErr

\* backend: the status a call on a property identifier reports
PropReport(ph, want) ==
  IF ph = 0 \/ ~Live(h_refs, "source", Owner(ph)) THEN StatusErr
  ELSE IF want \notin {"name", DeclType(Index(ph))} THEN StatusErr
  ELSE StatusOk

StatusAfter_NoReset(old, rep) == IF rep # StatusOk THEN rep ELSE old

StatusAfter_Local(old, rep) == old

\* m_status = 0; Xxx(m_handle, ..., &m_status): the backend writes the
\* status only when it reports a failure
StatusAfter(old, rep) == IF rep # StatusOk THEN rep ELSE StatusOk

Forwarded_TypeChecked(type, want) == want = "name" \/ type = want

\* the accessors pass m_handle on without looking at m_type
Forwarded(type, want) == TRUE

PFresh(p) == p_state[p] = "dead" /\ \A r \in 1..(p - 1) : p_state[r] # "dead"

InitAccess ==
  /\ InitFrames
  /\ InitWrappers
  /\ InitExtra
  /\ seq = Scn("off", NULL, 0, 0)
  /\ classes \in {{"source"}, {"sink"}}

\* VideoSource::GetName / GetDescription / GetLastFrameTime / IsConnected,
\* VideoSink::GetName / GetDescription, CvSource::SetConnected, ...
Accessor(w) ==
  /\ w_state[w] = "alive"
  /\ w_kind[w] \in {"source", "sink"}
  /\ LET rep == Report(w_kind[w], m_handle[w]) IN
       /\ m_status' = [m_status EXCEPT ![w] = StatusAfter(m_status[w], rep)]
       /\ alast' = AOp("accessor", m_status[w], "backend", rep,
                       IF rep = StatusOk THEN "value" ELSE "sentinel")
  /\ UNCHANGED <<w_state, w_kind, m_handle, h_refs, h_kind, owed, badRel,
                 wlast, classes, p_state, p_handle, p_type, p_status>>

\* VideoProperty VideoSource::GetProperty(name), the result constructed in
\* p; q is the index of the source's property of that name, 0 when it has
\* none.  VideoProperty(CS_Property handle):
\*   m_status = 0;
\*   if (handle == 0) m_type = kNone;
\*   else m_type = GetPropertyType(handle, &m_status);
GetProperty(w, p, q) ==
  /\ w_state[w] = "alive"
  /\ w_kind[w] = "source"
  /\ PFresh(p)
  /\ LET h == m_handle[w]
         found == Live(h_refs, "source", h) /\ q # 0
         r == IF found THEN PropHandle(h, q) ELSE 0
         rep == IF found THEN StatusOk ELSE StatusErr
     IN
       /\ m_status' = [m_status EXCEPT ![w] = StatusAfter(m_status[w], rep)]
       /\ p_state' = [p_state EXCEPT ![p] = "alive"]
       /\ p_handle' = [p_handle EXCEPT ![p] = r]
       /\ p_type' = [p_type EXCEPT
                       ![p] = IF r = 0 THEN kNone ELSE DeclType(Index(r))]
       /\ p_status' = [p_status EXCEPT
                         ![p] = IF r = 0 THEN StatusOk
                                ELSE StatusAfter(StatusOk, PropReport(r, "name"))]
       /\ alast' = AOp("getproperty", m_status[w], "backend", rep, r)
  /\ UNCHANGED <<w_state, w_kind, m_handle, h_refs, h_kind, owed, badRel,
                 wlast, classes>>

\* VideoProperty::GetBoolean / SetBoolean (want = "boolean"), GetDouble /
\* SetDouble ("double"), GetString / SetString ("string"), GetEnum / SetEnum
\* / GetChoices ("enum"), GetName / GetMin / GetMax / GetStep / GetDefault
\* ("name")
PropGet(p, want) ==
  /\ p_state[p] = "alive"
  /\ LET fwd == Forwarded(p_type[p], want)
         rep == IF fwd THEN PropReport(p_handle[p], want) ELSE StatusOk
     IN
       /\ p_status' = [p_status EXCEPT ![p] = StatusAfter(p_status[p], rep)]
       /\ alast' = AOp("propget", p_status[p],
                       IF fwd THEN "backend" ELSE "none", rep,
                       IF fwd /\ rep = StatusOk THEN "value" ELSE "sentinel")
  /\ UNCHANGED <<p_state, p_handle, p_type, wvars>>

\* ~VideoProperty(): nothing to release
PropDestroy(p) ==
  /\ p_state[p] = "alive"
  /\ p_state' = [p_state EXCEPT ![p] = "dead"]
  /\ p_handle' = [p_handle EXCEPT ![p] = 0]
  /\ p_type' = [p_type EXCEPT ![p] = kNone]
  /\ p_status' = [p_status EXCEPT ![p] = StatusOk]
  /\ alast' = AOp("propdestroy", StatusOk, "none", StatusOk, "none")
  /\ UNCHANGED wvars

\* Sources (or sinks) created, copied, queried and destroyed
NextAccess ==
  \/ \E w \in WIds, k \in Kinds : WDefault(w, k) /\ UNCHANGED <<fvars, seq, xvars>>
  \/ \E w \in WIds, k \in Kinds, ok \in BOOLEAN :
        WCreate(w, k, ok) /\ UNCHANGED <<fvars, seq, xvars>>
  \/ \E w, v \in WIds, ok \in BOOLEAN : WCopy(w, v, ok) /\ UNCHANGED <<fvars, seq, xvars>>
  \/ \E w \in WIds : WDestroy(w) /\ UNCHANGED <<fvars, seq, xvars>>
  \/ \E w \in WIds : Accessor(w) /\ UNCHANGED <<fvars, seq, bound, lvars>>

SpecAccess == InitAccess /\ [][NextAccess]_vars

InitProperty ==
  /\ InitFrames
  /\ InitWrappers
  /\ InitExtra
  /\ seq = Scn("off", NULL, 0, 0)
  /\ classes = {"source"}

\* the one Source object of the property scenario
OneSource(w, ok) ==
  /\ \A v \in WIds : w_state[v] = "dead"
  /\ WCreate(w, "source", ok)

\* One Source at a time, created, queried and destroyed, and the properties
\* looked up on it read, written and dropped
NextProperty ==
  \/ \E w \in WIds, ok \in BOOLEAN :
        OneSource(w, ok) /\ UNCHANGED <<fvars, seq, xvars>>
  \/ \E w \in WIds : WDestroy(w) /\ UNCHANGED <<fvars, seq, xvars>>
  \/ \E w \in WIds : Accessor(w) /\ UNCHANGED <<fvars, seq, bound, lvars>>
  \/ \E w \in WIds, p \in PIds, q \in 0..NumProps :
        GetProperty(w, p, q) /\ UNCHANGED <<fvars, seq, bound, lvars>>
  \/ \E p \in PIds, want \in Wants :
        PropGet(p, want) /\ UNCHANGED <<fvars, seq, bound, lvars>>
  \/ \E p \in PIds : PropDestroy(p) /\ UNCHANGED <<fvars, seq, bound, lvars>>

SpecProperty == InitProperty /\ [][NextProperty]_vars

\* ==================================================== listener events
InitListen ==
  /\ InitFrames
  /\ InitWrappers
  /\ InitExtra
  /\ seq = Scn("off", NULL, 0, 0)
  /\ classes = {"listener"}

\* backend: an event for the registered listener h is queued for delivery
Post(h) ==
  /\ Live(h_refs, "listener", h)
  /\ h \notin pending
  /\ pending' = pending \cup {h}
  /\ wlast' = WOp("post", "none", h)
  /\ UNCHANGED <<w_state, w_kind, m_handle, m_status, h_refs, h_kind, owed,
                 badRel, classes, lateFire>>

\* backend: the event in flight for h reaches the head of the queue; under
\* the lock that RemoveSourceListener / RemoveSinkListener also take, the
\* callback registered for h runs, or the event is dropped when there is none
Deliver(h) ==
  /\ h \in pending
  /\ pending' = pending \ {h}
  /\ IF Live(h_refs, "listener", h)
     THEN /\ wlast' = WOp("deliver", "callback", h)
          /\ lateFire' = (lateFire \/ (\A w \in WIds :
                            ~(w_state[w] = "alive" /\ m_handle[w] = h)))
     ELSE /\ wlast' = WOp("deliver", "none", h)
          /\ UNCHANGED lateFire
  /\ UNCHANGED <<w_state, w_kind, m_handle, m_status, h_refs, h_kind, owed,
                 badRel, classes>>

\* Listeners registered, moved and destroyed while the backend posts and
\* delivers events
NextListen ==
  \/ \E w \in WIds, k \in Kinds : WDefault(w, k) /\ UNCHANGED <<fvars, seq, xvars>>
  \/ \E w \in WIds, k \in Kinds, ok \in BOOLEAN :
        WCreate(w, k, ok) /\ UNCHANGED <<fvars, seq, xvars>>
  \/ \E w, v \in WIds : WMove(w, v) /\ UNCHANGED <<fvars, seq, xvars>>
  \/ \E w \in WIds : WDestroy(w) /\ UNCHANGED <<fvars, seq, xvars>>
  \/ \E h \in Handles : Post(h) /\ UNCHANGED <<fvars, seq, bound, pvars>>
  \/ \E h \in Handles : Deliver(h) /\ UNCHANGED <<fvars, seq, bound, pvars>>

SpecListen == InitListen /\ [][NextListen]_vars

\* ------------------------------------------------ sink binding claims
C11_Bindings ==
  \A s \in Handles :
    bound[s] # 0 => (Live(h_refs, "sink", s) /\ Live(h_refs, "source", bound[s]))

C11_Steps ==
  /\ \A s, v \in WIds, ok \in BOOLEAN :
       (wlast'.op = "setsource" /\ SetSource(s, v, ok)) =>
         /\ h_refs' = h_refs
         /\ owed' = owed
         /\ m_handle[v] = 0 => wlast'.ret = 0
         /\ wlast'.ret \in {0, m_handle[v]}
         /\ Live(h_refs, "sink", m_handle[s]) =>
              bound'[m_handle[s]] \in {wlast'.ret, bound[m_handle[s]]}
         /\ (Live(h_refs, "sink", m_handle[s]) /\ wlast'.ret = 0) =>
              bound'[m_handle[s]] = 0
  /\ \A w \in WIds :
       (w_kind[w] = "sink" /\ m_handle[w] # 0 /\ wlast'.op = "destroy"
          /\ SinkDestroy(w)) =>
         /\ wlast'.call = "release"
         /\ h_refs' = [h_refs EXCEPT ![m_handle[w]] = @ - 1]
         /\ badRel' = badRel
  /\ \A w, s \in WIds :
       (wlast'.op = "getsource" /\ GetSource(w, s)
          /\ Live(h_refs, "sink", m_handle[s]) /\ bound[m_handle[s]] = 0) =>
         (m_handle'[w] = 0 /\ ~Valid(w)')

\* C11: the binding of a sink to a source is weak.  VideoSink::SetSource
\* leaves every backend reference count as it was before the call (the
\* by-value argument's reference is released again), an empty Source is
\* passed as identifier 0 and unbinds, a binding never outlives its source
\* or its sink, a sink whose source is unbound or gone is destroyed with
\* exactly one release of the sink, and GetSource on an unbound sink
\* yields the empty Source.
C11_BindingIsWeak == []C11_Bindings /\ [][C11_Steps]_vars

\* a sink has just been bound to a source that has a single wrapper
C11_Witness ==
  /\ wlast.op = "setsource"
  /\ wlast.ret # 0
  /\ h_refs[wlast.ret] = 1
  /\ \E s \in Handles : bound[s] = wlast.ret

\* C12: the wrapper that VideoSink::GetSource returns for a bound sink
\* holds a reference of its own, so that whatever wrappers are destroyed,
\* every remaining wrapper with a non-zero identifier still refers to a
\* live backend entry of its kind.
C12_ReturnedCopyOwnsReference ==
  \A w \in WIds :
    (w_state[w] = "alive" /\ m_handle[w] # 0) =>
      Live(h_refs, w_kind[w], m_handle[w])

\* ------------------------------------------- accessor and property claims
C13_Steps ==
  /\ \A w \in WIds :
       (alast'.op = "accessor" /\ Accessor(w)) =>
         (m_status'[w] = alast'.rep /\ alast'.call = "backend")
  /\ \A w \in WIds, p \in PIds, q \in 0..NumProps :
       (alast'.op = "getproperty" /\ GetProperty(w, p, q)) =>
         (m_status'[w] = alast'.rep /\ alast'.call = "backend")
  /\ \A p \in PIds, want \in Wants :
       (alast'.op = "propget" /\ PropGet(p, want)) =>
         (p_status'[p] = alast'.rep /\ alast'.call = "backend")

\* C13: the status of a wrapper reflects its most recent accessor call
\* only: after every accessor call on a Source or Property wrapper the
\* wrapper's status is the status the backend reported for that call,
\* whatever status the wrapper held before; a successful call after a
\* failed one leaves 0.
C13_StatusOfLastCall == [][C13_Steps]_vars

\* a Source whose last lookup failed has just answered a query
C13_Witness ==
  /\ alast.op = "accessor"
  /\ alast.was = StatusErr
  /\ alast.rep = StatusOk
  /\ \E w \in WIds :
       w_state[w] = "alive" /\ m_handle[w] # 0 /\ m_status[w] = StatusOk

C14_Steps ==
  /\ \A w \in WIds, k \in Kinds, ok \in BOOLEAN :
       (wlast'.op = "create" /\ wlast'.ret = 0 /\ WCreate(w, k, ok)) =>
         (m_handle'[w] = 0 /\ m_status'[w] # StatusOk)
  /\ \A w \in WIds :
       (m_handle[w] = 0 /\ wlast'.op = "destroy" /\ WDestroy(w)) =>
         (wlast'.call = "none" /\ h_refs' = h_refs)

\* C14: for every kind of wrapper, a construction whose backend factory
\* call fails leaves the wrapper with identifier 0 and a nonzero status to
\* inspect on it, and destroying that wrapper makes no backend call.
C14_FailedConstruction == [][C14_Steps]_vars

C15_Steps ==
  \A w \in WIds, p \in PIds, q \in 0..NumProps :
    (alast'.op = "getproperty" /\ alast'.ret = 0 /\ GetProperty(w, p, q)) =>
      /\ p_handle'[p] = 0
      /\ p_type'[p] = kNone
      /\ p_status'[p] # StatusOk

\* C15: looking up a property the Source does not have returns an empty
\* Property, identifier 0 and type none, that carries a nonzero "does not
\* exist" status.
C15_AbsentPropertyHasStatus == [][C15_Steps]_vars

C16_Steps ==
  /\ \A w \in WIds :
       (m_handle[w] = 0 /\ alast'.op = "accessor" /\ Accessor(w)) =>
         /\ alast'.ret = "sentinel"
         /\ m_status'[w] # StatusOk
         /\ m_handle'[w] = 0
  /\ \A w, v \in WIds, ok \in BOOLEAN :
       (m_handle[v] = 0 /\ wlast'.op = "copy" /\ WCopy(w, v, ok)) =>
         (wlast'.call = "none" /\ m_handle'[w] = 0 /\ h_refs' = h_refs)
  /\ \A w \in WIds :
       (m_handle[w] = 0 /\ wlast'.op = "destroy" /\ WDestroy(w)) =>
         (wlast'.call = "none" /\ h_refs' = h_refs /\ ~badRel')

\* C16: on a wrapper with identifier 0, such as a default-constructed one,
\* every operation either makes no backend call or reports "no resource":
\* copying and destroying it make no backend call, and each accessor
\* returns the sentinel and leaves a nonzero status on the wrapper.
C16_EmptyWrapper == [][C16_Steps]_vars

\* an accessor has just been called on a default-constructed wrapper
C16_Witness ==
  /\ wlast.op = "default"
  /\ alast.op = "accessor"
  /\ alast.was = StatusOk
  /\ alast.ret = "sentinel"
  /\ \E w \in WIds :
       w_state[w] = "alive" /\ m_handle[w] = 0 /\ m_status[w] = StatusErr

C18_Steps ==
  \A p \in PIds, want \in PropTypes :
    (p_handle[p] # 0 /\ p_type[p] # want
       /\ alast'.op = "propget" /\ PropGet(p, want)) =>
      /\ alast'.call = "backend"
      /\ alast'.ret = "sentinel"
      /\ alast'.rep # StatusOk
      /\ p_status'[p] = alast'.rep
      /\ p_handle'[p] = p_handle[p]
      /\ p_type'[p] = p_type[p]

\* C18: the typed accessors of a Property do not check the type locally: an
\* access of another type than the property's (GetDouble on an enumerated
\* property) is forwarded to the backend, returns the backend's sentinel
\* and leaves the backend's nonzero status on the wrapper, whose identifier
\* and cached type stay as they were.
C18_MismatchIsBackendError == [][C18_Steps]_vars

\* a typed read of another type has just failed on an enumerated property
\* of a live source
C18_Witness ==
  /\ alast.op = "propget"
  /\ alast.call = "backend"
  /\ alast.ret = "sentinel"
  /\ \E p \in PIds :
       /\ p_state[p] = "alive" /\ p_handle[p] # 0
       /\ p_type[p] = "enum" /\ p_status[p] = StatusErr
       /\ Live(h_refs, "source", Owner(p_handle[p]))
  /\ \A p \in PIds : p_state[p] = "alive" => p_type[p] = "enum"

\* ------------------------------------------------------ listener claim
C17_Steps ==
  \A w \in WIds :
    (m_handle[w] # 0 /\ wlast'.op = "destroy" /\ WDestroy(w)) =>
      /\ wlast'.call = "release"
      /\ h_refs'[m_handle[w]] = 0
      /\ ~badRel'

\* C17: destroying a Listener with a non-zero identifier makes exactly one
\* deregistration call, after which the registration is gone, and the
\* callback of a listener never runs once its destruction has completed,
\* also not for an event that was in flight when the destruction began.
C17_NoCallbackAfterDestroy == [](~lateFire) /\ [][C17_Steps]_vars

\* an event that was in flight when its listener was destroyed has just
\* been dropped
C17_Witness ==
  /\ wlast.op = "deliver"
  /\ wlast.call = "none"
  /\ ~lateFire
  /\ \A w \in WIds : w_state[w] = "dead"

\* ------------------------------------------------- assignment claims
\* the Frames that hold a reference on buffer b, parameters included
Owners(b) == {f \in FrameIds : f_state[f] \in {"alive", "param"} /\ m_data[f] = b}

C19_Counts ==
  \A b \in Buffers :
    /\ refcount[b] = Cardinality(Owners(b))
    /\ Owners(b) # {} => (~inPool[b] /\ released[b] = 0)

C19_Steps ==
  /\ \A a, b, t \in FrameIds :
       (last'.op = "assigncopy" /\ AssignCopy(a, b, t)) =>
         /\ \A d \in Buffers :
              refcount'[d] = refcount[d] + (IF d = m_data[b] THEN 1 ELSE 0)
         /\ m_data'[a] = m_data[b]
         /\ a # b => m_data'[b] = m_data[b]
         /\ m_data'[t] = m_data[a]
         /\ f_state'[t] = "param"
         /\ released' = released /\ inPool' = inPool
  /\ \A a, b, t \in FrameIds :
       (last'.op = "assignmove" /\ AssignMove(a, b, t)) =>
         /\ refcount' = refcount
         /\ released' = released /\ inPool' = inPool
         /\ a # b => /\ m_data'[a] = m_data[b]
                     /\ m_data'[b] = NULL
                     /\ m_data'[t] = m_data[a]
         /\ a = b => /\ m_data'[a] = m_data[a]
                     /\ m_data'[t] = NULL
  /\ \A t \in FrameIds :
       (last'.op = "assignend" /\ AssignEnd(t)) =>
         /\ \A d \in Buffers :
              refcount'[d] = refcount[d] - (IF d = m_data[t] THEN 1 ELSE 0)
         /\ (f_state'[t] = "releasing") <=>
              (m_data[t] # NULL /\ Owners(m_data[t]) = {t})
         /\ released' = released /\ inPool' = inPool

\* C19: Frame assignment a = b takes the reference on b's buffer before it
\* drops the one on a's previous buffer.  Copy assignment raises the count
\* of b's buffer by one and hands a's previous buffer to the parameter,
\* whose destruction lowers that count by one and reclaims the buffer
\* exactly when no other Frame holds it; move assignment changes no count,
\* leaves b null and hands a's previous buffer to the parameter; self
\* assignment, or assignment between two Frames on one buffer, ends with
\* the count it started with and reclaims nothing, even at count 1.
C19_AssignIncrementsFirst == []C19_Counts /\ [][C19_Steps]_vars

\* the only Frame on a buffer has just been assigned to itself: the count
\* is 2 until the parameter is destroyed
C19_Witness ==
  /\ last.op = "assigncopy"
  /\ last.f = last.g
  /\ last.b # NULL
  /\ refcount[last.b] = 2
  /\ Cardinality({f \in FrameIds : f_state[f] = "alive" /\ m_data[f] = last.b}) = 1
  /\ released[last.b] = 0

C20_Held ==
  \A w \in WIds :
    (w_state[w] = "alive" /\ m_handle[w] # 0) => h_refs[m_handle[w]] >= 1

C20_Steps ==
  /\ wlast'.op = "assigncopy" =>
       \A a, b, t \in WIds, ok \in BOOLEAN :
         WAssignCopy(a, b, t, ok) =>
           /\ wlast'.call = (IF m_handle[b] # 0 THEN "copy" ELSE "none")
           /\ \A h \in Handles :
                h_refs'[h] = h_refs[h] + (IF h = wlast'.ret THEN 1 ELSE 0)
           /\ m_handle'[a] = wlast'.ret
           /\ m_handle'[t] = m_handle[a]
           /\ w_state'[t] = "temp"
  /\ wlast'.op = "assignmove" =>
       \A a, b, t \in WIds :
         WAssignMove(a, b, t) =>
           /\ wlast'.call = "none"
           /\ h_refs' = h_refs
           /\ w_state'[t] = "temp"
           /\ a # b => /\ m_handle'[a] = m_handle[b]
                       /\ m_handle'[b] = 0
                       /\ m_handle'[t] = m_handle[a]
           /\ a = b => /\ m_handle'[a] = m_handle[a]
                       /\ m_handle'[t] = 0
  /\ wlast'.op = "assignend" =>
       \A t \in WIds :
         WAssignEnd(t) =>
           /\ wlast'.call = (IF m_handle[t] # 0 THEN "release" ELSE "none")
           /\ \A h \in Handles :
                h_refs'[h] = h_refs[h] - (IF h = m_handle[t] THEN 1 ELSE 0)
           /\ ~badRel'

====
